---- MODULE Spec2Model ----
(***************************************************************************)
(* Model of the release tooling of the Smart Cycle Discounts plugin:       *)
(*   build.py                    (create_zip: the full/PREMIUM assembly)   *)
(*   add-premium-annotations.py  (the tagger and its batch loop)           *)
(*   compare-versions.py         (the FREE/PREMIUM manifest comparator)    *)
(* Texts, paths and patterns are TLA+ strings, handled character by        *)
(* character as the Python code handles them.                              *)
(***************************************************************************)
EXTENDS Integers, Sequences, FiniteSets, TLC

VARIABLES
    tree,            \* the source tree: [path -> bytes of the file] for the files that exist
    unreadable,      \* paths whose open()/read() raises (permissions, bad UTF-8)
    tag_i,           \* add-premium-annotations.main: index of the next entry of PREMIUM_ONLY_FILES
    annotated,       \* main: counter
    skipped,         \* main: counter
    errors,          \* main: counter
    printed,         \* main: the per-file lines main printed, [label, path]
    tagpc,           \* main: "loop" | "summary" | "done"
    inserted,        \* history: [path -> number of marker lines the tagger wrote into it]
    orig,            \* history: the tree as it was at the start of the run
    calls,           \* history: number of add_premium_annotation calls made so far
    last,            \* history: the last call, [path, result, before, warn]
    free_zip,        \* compare-versions: FREE_ZIP, [exists, names]
    premium_zip,     \* compare-versions: PREMIUM_ZIP, [exists, names]
    cpc,             \* compare-versions.main: "start" | "compare" | "config" | "done" | "returned" | "crashed"
    buckets,         \* compare-versions.main: the category lists that were built
    free_warning,    \* compare-versions.main: the "Files only in FREE" warning, [shown, count, listed]
    cmp_msgs,        \* compare-versions.main: the other messages printed
    cfg,             \* build.py: the rule configuration, [root_files, dirs, deny]
    bpc,             \* create_zip: "idle" | "roots" | "dirs" | "walk" | "done" | "failed"
    root_i,          \* create_zip: index of the next entry of INCLUDE_ROOT_FILES
    dir_i,           \* create_zip: index of the current entry of INCLUDE_DIRS
    pending,         \* create_zip: the (root, filename) pairs os.walk has still to yield
    zip_entries,     \* create_zip: the archive names written so far, in order
    included_files,  \* create_zip: counter
    skipped_files,   \* create_zip: counter
    build_warnings,  \* create_zip: the root files reported as not found
    excluded_dirs,   \* build.main: what get_excluded_directories returned, [listed, dirs]
    visits,          \* history: the filesystem tests and decisions create_zip made, [op, path]
    artifact,        \* the file under the output name: "absent" | "partial" | "complete"
    zip_data,        \* create_zip: [archive name -> bytes stored under it]
    hpc,             \* update-file-headers.main: "idle" | "call" | "php" | "js" | "css" | "done"
    hdr_pending,     \* main: the paths the current rglob has still to yield
    stats,           \* main: the nine counters
    hdr_log,         \* history: what main did with each file it met, [what, path]
    hdr_calls,       \* history: number of direct update_php_file calls made so far
    css_pc,          \* process_file: "idle" | "rules" | "fixes" | "write"
    css_content,     \* process_file: content
    css_original_content, \* process_file: original_content
    css_todo,        \* process_file: the entries of REPLACEMENTS the loop has still to yield
    css_fix_i,       \* process_file: index of the next entry of NAMESPACE_FIXES
    css_changes_made, \* process_file: changes_made, the descriptions of the rules that matched
    css_runs,        \* history: number of process_file calls made so far
    css_last         \* history: the last process_file call, [path, before, had_backup, changes, result]

tagVars == <<tree, unreadable, tag_i, annotated, skipped, errors, printed, tagpc, inserted, orig, calls, last>>

cmpVars == <<free_zip, premium_zip, cpc, buckets, free_warning, cmp_msgs>>

buildVars == <<cfg, bpc, root_i, dir_i, pending, zip_entries, included_files, skipped_files,
               build_warnings, excluded_dirs, visits, artifact, zip_data>>

hdrVars == <<hpc, hdr_pending, stats, hdr_log, hdr_calls>>

cssVars == <<css_pc, css_content, css_original_content, css_todo, css_fix_i, css_changes_made,
             css_runs, css_last>>

vars == <<tagVars, cmpVars, buildVars, hdrVars, cssVars>>

-----------------------------------------------------------------------------
(* Bounds *)

MaxLines == 4        \* lines of a generated file text
BatchLen == 3        \* entries of PREMIUM_ONLY_FILES the batch runs over
MaxCalls == 3        \* direct calls of add_premium_annotation on one file
MaxManifest == 2     \* paths in one archive handed to the comparator
MaxTreeFiles == 3    \* files in a generated source tree
MaxRules == 5        \* entries of REPLACEMENTS the replacer runs with

-----------------------------------------------------------------------------
(* Python str primitives *)

Char(s, i) == SubSeq(s, i, i)

StartsWith(s, p) == Len(s) >= Len(p) /\ SubSeq(s, 1, Len(p)) = p

EndsWith(s, p) == Len(s) >= Len(p) /\ SubSeq(s, Len(s) - Len(p) + 1, Len(s)) = p

\* `sub in s`
Contains(s, sub) == \E i \in 1..(Len(s) - Len(sub) + 1) : SubSeq(s, i, i + Len(sub) - 1) = sub

\* str.find: the first index (1-based) of sub in s from position from, 0 when absent
Find(s, sub, from) ==
    LET hits == {i \in from..(Len(s) - Len(sub) + 1) : SubSeq(s, i, i + Len(sub) - 1) = sub}
    IN  IF hits = {} THEN 0 ELSE CHOOSE i \in hits : \A j \in hits : i <= j

\* s.split(sep), sep non-empty: always at least one element
RECURSIVE Split(_, _)
Split(s, sep) ==
    LET k == Find(s, sep, 1) IN
    IF k = 0 THEN <<s>>
    ELSE <<SubSeq(s, 1, k - 1)>> \o Split(SubSeq(s, k + Len(sep), Len(s)), sep)

\* sep.join(parts)
RECURSIVE Join(_, _)
Join(parts, sep) ==
    IF Len(parts) = 0 THEN ""
    ELSE IF Len(parts) = 1 THEN parts[1]
    ELSE parts[1] \o sep \o Join(Tail(parts), sep)

\* the ASCII whitespace str.strip() removes
Whitespace == {" ", "\t", "\n", "\r", "\f"}

RECURSIVE LStrip(_)
LStrip(s) ==
    IF Len(s) > 0 /\ Char(s, 1) \in Whitespace THEN LStrip(SubSeq(s, 2, Len(s))) ELSE s

RECURSIVE RStrip(_)
RStrip(s) ==
    IF Len(s) > 0 /\ Char(s, Len(s)) \in Whitespace THEN RStrip(SubSeq(s, 1, Len(s) - 1)) ELSE s

Strip(s) == LStrip(RStrip(s))

\* s.replace(old, new), old non-empty
RECURSIVE Replace(_, _, _)
Replace(s, old, new) ==
    LET k == Find(s, old, 1) IN
    IF k = 0 THEN s
    ELSE SubSeq(s, 1, k - 1) \o new \o Replace(SubSeq(s, k + Len(old), Len(s)), old, new)

\* list.insert with the element put after position i instead of before it
ListInsertAfter(lst, i, x) == SubSeq(lst, 1, i + 1) \o <<x>> \o SubSeq(lst, i + 2, Len(lst))

\* list.insert(i, x) with a 0-based index i <= len
ListInsert(lst, i, x) == SubSeq(lst, 1, i) \o <<x>> \o SubSeq(lst, i + 1, Len(lst))

\* open(path, 'r').read() in text mode: universal newlines, "\r\n" and "\r" become "\n"
ReadText(bytes) ==
    IF Contains(bytes, "\r") THEN Replace(Replace(bytes, "\r\n", "\n"), "\r", "\n") ELSE bytes

\* os.linesep of the platform the scripts run on (POSIX)
LineSep == "\n"

\* open(path, 'w').write(text) in text mode: "\n" becomes os.linesep
WriteText(text) == IF LineSep = "\n" THEN text ELSE Replace(text, "\n", LineSep)

-----------------------------------------------------------------------------
(* add-premium-annotations.py *)

Marker == "@freemius_premium_only"

MarkerLine == " * @freemius_premium_only"

\* The for-loop of add_premium_annotation over enumerate(lines), from 0-based
\* index i with the current in_docblock flag: the value of insert_line, or -1
\* for None.
RECURSIVE FindInsertLine(_, _, _)
FindInsertLine(lines, i, in_docblock) ==
    IF i >= Len(lines) THEN -1
    ELSE LET stripped == Strip(lines[i + 1]) IN
         IF stripped = "<?php" THEN FindInsertLine(lines, i + 1, in_docblock)
         ELSE IF StartsWith(stripped, "/**") THEN FindInsertLine(lines, i + 1, TRUE)
         ELSE IF in_docblock /\ stripped = "*/" THEN i
         ELSE FindInsertLine(lines, i + 1, in_docblock)

\* add_premium_annotation without the "already annotated" test of line 85
AnnotateNoCheck(bytes) ==
    LET content == ReadText(bytes)
        lines == Split(content, "\n")
        insert_line == FindInsertLine(lines, 0, FALSE)
    IN  IF insert_line = -1
        THEN [result |-> FALSE, bytes |-> bytes, wrote |-> FALSE, warn |-> "Could not find docblock"]
        ELSE [result |-> TRUE,
              bytes |-> WriteText(Join(ListInsert(lines, insert_line, MarkerLine), "\n")),
              wrote |-> TRUE, warn |-> ""]

\* add_premium_annotation on an existing, readable file holding `bytes`:
\* the result and the bytes the file holds afterwards.
Annotate(bytes) ==
    LET content == ReadText(bytes)
        lines == Split(content, "\n")
        insert_line == FindInsertLine(lines, 0, FALSE)
    IN  IF Contains(content, Marker)
        THEN [result |-> FALSE, bytes |-> bytes, wrote |-> FALSE, warn |-> ""]
        ELSE IF insert_line = -1
        THEN [result |-> FALSE, bytes |-> bytes, wrote |-> FALSE, warn |-> "Could not find docblock"]
        ELSE [result |-> TRUE,
              bytes |-> WriteText(Join(ListInsert(lines, insert_line, MarkerLine), "\n")),
              wrote |-> TRUE, warn |-> ""]

\* add_premium_annotation(file_path) against the tree: missing and unreadable
\* files return False and are not written.
add_premium_annotation(t, unr, path) ==
    IF path \notin DOMAIN t
    THEN [result |-> FALSE, bytes |-> "", wrote |-> FALSE, warn |-> "File not found"]
    ELSE IF path \in unr
    THEN [result |-> FALSE, bytes |-> t[path], wrote |-> FALSE, warn |-> "Error processing"]
    ELSE Annotate(t[path])

\* The head of PREMIUM_ONLY_FILES; the batch runs over its first BatchLen entries.
PremiumOnlyFilesHead ==
    << "includes/core/analytics/class-export-service.php",
       "includes/api/class-rest-api-manager.php",
       "includes/core/discounts/strategies/class-bogo-strategy.php",
       "includes/class-recurring-handler.php" >>

PREMIUM_ONLY_FILES == SubSeq(PremiumOnlyFilesHead, 1, BatchLen)

\* What one call of add_premium_annotation(path) does to the tree and the history.
CallEffect(path) ==
    LET r == add_premium_annotation(tree, unreadable, path) IN
    /\ tree' = IF r.wrote THEN [tree EXCEPT ![path] = r.bytes] ELSE tree
    /\ inserted' = IF r.wrote THEN [inserted EXCEPT ![path] = @ + 1] ELSE inserted
    /\ calls' = calls + 1
    /\ last' = [path |-> path, result |-> r.result, warn |-> r.warn,
                before |-> IF path \in DOMAIN tree THEN tree[path] ELSE ""]

\* The loop of main leaving the batch at the first file that is not found
MainStepAbort ==
    /\ tagpc = "loop"
    /\ tag_i <= Len(PREMIUM_ONLY_FILES)
    /\ LET rel_path == PREMIUM_ONLY_FILES[tag_i]
           r == add_premium_annotation(tree, unreadable, rel_path)
       IN  /\ CallEffect(rel_path)
           /\ IF r.result
              THEN /\ annotated' = annotated + 1
                   /\ printed' = Append(printed, [label |-> "Annotated", path |-> rel_path])
                   /\ UNCHANGED <<skipped, errors>>
              ELSE IF rel_path \in DOMAIN tree
              THEN /\ skipped' = skipped + 1
                   /\ printed' = Append(printed, [label |-> "Already annotated", path |-> rel_path])
                   /\ UNCHANGED <<annotated, errors>>
              ELSE /\ errors' = errors + 1
                   /\ UNCHANGED <<annotated, skipped, printed>>
           /\ tag_i' = IF r.warn = "File not found" THEN Len(PREMIUM_ONLY_FILES) + 1 ELSE tag_i + 1
    /\ UNCHANGED <<unreadable, tagpc, orig>>
    /\ UNCHANGED <<cmpVars, buildVars, hdrVars, cssVars>>

\* One iteration of the for-loop of main.
MainStep ==
    /\ tagpc = "loop"
    /\ tag_i <= Len(PREMIUM_ONLY_FILES)
    /\ LET rel_path == PREMIUM_ONLY_FILES[tag_i]
           r == add_premium_annotation(tree, unreadable, rel_path)
       IN  /\ CallEffect(rel_path)
           /\ IF r.result
              THEN /\ annotated' = annotated + 1
                   /\ printed' = Append(printed, [label |-> "Annotated", path |-> rel_path])
                   /\ UNCHANGED <<skipped, errors>>
              ELSE IF rel_path \in DOMAIN tree
              THEN /\ skipped' = skipped + 1
                   /\ printed' = Append(printed, [label |-> "Already annotated", path |-> rel_path])
                   /\ UNCHANGED <<annotated, errors>>
              ELSE /\ errors' = errors + 1
                   /\ UNCHANGED <<annotated, skipped, printed>>
    /\ tag_i' = tag_i + 1
    /\ UNCHANGED <<unreadable, tagpc, orig>>
    /\ UNCHANGED <<cmpVars, buildVars, hdrVars, cssVars>>

\* The end of the loop: main prints the summary with the three counters.
MainSummary ==
    /\ tagpc = "loop"
    /\ tag_i > Len(PREMIUM_ONLY_FILES)
    /\ tagpc' = "done"
    /\ UNCHANGED <<tree, unreadable, tag_i, annotated, skipped, errors, printed, inserted,
                   orig, calls, last>>
    /\ UNCHANGED <<cmpVars, buildVars, hdrVars, cssVars>>

\* An iteration of the loop of main whose call does not write the file.
MainStepNoWrite ==
    /\ tagpc = "loop"
    /\ tag_i <= Len(PREMIUM_ONLY_FILES)
    /\ ~add_premium_annotation(tree, unreadable, PREMIUM_ONLY_FILES[tag_i]).wrote
    /\ MainStep

\* add_premium_annotation, lines 80-120, as other processes see it: the file
\* has been read and open(file_path, 'w') has truncated it.
TagOpenWrite ==
    /\ tagpc = "loop"
    /\ tag_i <= Len(PREMIUM_ONLY_FILES)
    /\ LET rel_path == PREMIUM_ONLY_FILES[tag_i]
           r == add_premium_annotation(tree, unreadable, rel_path)
       IN  /\ r.wrote
           /\ tree' = [tree EXCEPT ![rel_path] = ""]
           /\ last' = [path |-> rel_path, result |-> r.result, warn |-> r.warn,
                       before |-> tree[rel_path]]
           /\ calls' = calls + 1
    /\ tagpc' = "writing"
    /\ UNCHANGED <<unreadable, tag_i, annotated, skipped, errors, printed, inserted, orig>>
    /\ UNCHANGED <<cmpVars, buildVars, hdrVars, cssVars>>

\* add_premium_annotation, lines 121-123, and main, lines 143-145: the new
\* text is written, the file is closed and the call is counted.
TagCloseWrite ==
    /\ tagpc = "writing"
    /\ tree' = [tree EXCEPT ![last.path] = Annotate(last.before).bytes]
    /\ inserted' = [inserted EXCEPT ![last.path] = @ + 1]
    /\ annotated' = annotated + 1
    /\ printed' = Append(printed, [label |-> "Annotated", path |-> last.path])
    /\ tag_i' = tag_i + 1
    /\ tagpc' = "loop"
    /\ UNCHANGED <<unreadable, skipped, errors, orig, calls, last>>
    /\ UNCHANGED <<cmpVars, buildVars, hdrVars, cssVars>>

\* A direct call tag(file) on the first premium-only file.
TagFile == PremiumOnlyFilesHead[1]

TagCall ==
    /\ tagpc = "call"
    /\ calls < MaxCalls
    /\ CallEffect(TagFile)
    /\ UNCHANGED <<unreadable, tag_i, annotated, skipped, errors, printed, tagpc, orig>>
    /\ UNCHANGED <<cmpVars, buildVars, hdrVars, cssVars>>

-----------------------------------------------------------------------------
(* build.py *)

PLUGIN_SLUG == "smart-cycle-discounts"

INCLUDE_ROOT_FILES == <<"smart-cycle-discounts.php", "index.php", "readme.txt", "LICENSE">>

\* INCLUDE_DIRS with an entry that lies inside another one
INCLUDE_DIRS_nested ==
    <<"includes", "resources/assets/css", "resources/assets/js", "resources/assets/vendor",
      "resources/assets/images", "resources/views", "templates", "languages", "vendor",
      "vendor/freemius">>

INCLUDE_DIRS ==
    <<"includes", "resources/assets/css", "resources/assets/js", "resources/assets/vendor",
      "resources/assets/images", "resources/views", "templates", "languages", "vendor/freemius">>

EXCLUDE_FILES_WITHIN ==
    <<"*.sh", "*.md", "*.map", "*.scss", "*.sass", "*.ts", "*.log", ".gitkeep", ".DS_Store",
      "Thumbs.db">>

\* The configuration build.py ships.
Shipped ==
    [root_files |-> INCLUDE_ROOT_FILES, dirs |-> INCLUDE_DIRS, deny |-> EXCLUDE_FILES_WITHIN]

\* fnmatch.fnmatch(name, pat) on POSIX (normcase is the identity): "*" matches
\* any run of characters, "?" any one character, every other character
\* itself; the whole name must match. (No shipped pattern has a "[".)
RECURSIVE fnmatch(_, _)
fnmatch(name, pat) ==
    IF Len(pat) = 0 THEN Len(name) = 0
    ELSE LET c == Char(pat, 1)
             rest == SubSeq(pat, 2, Len(pat))
         IN  IF c = "*"
             THEN fnmatch(name, rest) \/ (Len(name) > 0 /\ fnmatch(SubSeq(name, 2, Len(name)), pat))
             ELSE IF c = "?"
             THEN Len(name) > 0 /\ fnmatch(SubSeq(name, 2, Len(name)), rest)
             ELSE /\ Len(name) > 0
                  /\ Char(name, 1) = c
                  /\ fnmatch(SubSeq(name, 2, Len(name)), rest)

\* matches_pattern without wildcards
matches_pattern_exact(filename, pattern) == filename = pattern

matches_pattern(filename, pattern) == fnmatch(filename, pattern)

\* os.path.basename
basename(path) == LET parts == Split(path, "/") IN parts[Len(parts)]

\* should_skip_file that looks at the first pattern only
should_skip_file_first(deny, filepath) ==
    Len(deny) > 0 /\ matches_pattern(basename(filepath), deny[1])

\* should_skip_file(filepath), with EXCLUDE_FILES_WITHIN passed as deny
should_skip_file(deny, filepath) ==
    LET name == basename(filepath) IN
    \E k \in 1..Len(deny) : matches_pattern(name, deny[k])

\* os.path.join(a, b) for a relative b
path_join(a, b) ==
    IF Len(a) = 0 \/ EndsWith(a, "/") THEN a \o b ELSE a \o "/" \o b

\* The components of a path that name something: "" and "." dropped
RECURSIVE NameParts(_)
NameParts(parts) ==
    IF Len(parts) = 0 THEN <<>>
    ELSE IF parts[1] \in {"", "."} THEN NameParts(Tail(parts))
    ELSE <<parts[1]>> \o NameParts(Tail(parts))

\* os.path.normpath of a relative path without ".."
normpath(path) ==
    LET parts == NameParts(Split(path, "/")) IN
    IF Len(parts) = 0 THEN "." ELSE Join(parts, "/")

\* os.path.relpath(path, source_dir) with source_dir = '.'
relpath(path) == normpath(path)

\* os.path.isfile / os.path.isdir against the tree
isfile(t, path) == normpath(path) \in DOMAIN t

isdir(t, path) ==
    LET n == normpath(path) IN
    n = "." \/ \E q \in DOMAIN t : StartsWith(q, n \o "/")

\* os.walk stopped after the top directory
walk_top(t, dir_path) ==
    LET n == normpath(dir_path)
        under == IF n = "." THEN DOMAIN t ELSE {q \in DOMAIN t : StartsWith(q, n \o "/")}
        rel(q) == IF n = "." THEN q ELSE SubSeq(q, Len(n) + 2, Len(q))
    IN  {[root |-> dir_path, filename |-> rel(q)] : q \in {r \in under : ~Contains(rel(r), "/")}}

\* The (root, filename) pairs os.walk(dir_path) yields: one for every file at
\* any depth under dir_path, root being dir_path joined with the
\* subdirectories that lead to the file.
walk(t, dir_path) ==
    LET n == normpath(dir_path)
        under == IF n = "." THEN DOMAIN t ELSE {q \in DOMAIN t : StartsWith(q, n \o "/")}
        rel(q) == IF n = "." THEN q ELSE SubSeq(q, Len(n) + 2, Len(q))
        pair(q) == LET parts == Split(rel(q), "/")
                       subdirs == SubSeq(parts, 1, Len(parts) - 1)
                   IN  [root |-> IF Len(subdirs) = 0 THEN dir_path
                                 ELSE path_join(dir_path, Join(subdirs, "/")),
                        filename |-> parts[Len(parts)]]
    IN  {pair(q) : q \in under}

SourceDir == "."

Range(seq) == {seq[k] : k \in 1..Len(seq)}

\* Where create_zip goes after the root-file loop has handled i - 1 entries.
AfterRoots(i) == IF i > Len(cfg.root_files) THEN "dirs" ELSE "roots"

\* get_excluded_directories(source_dir), as the set of the names it returns:
\* the top-level directories that are hidden, or that neither are an entry of
\* INCLUDE_DIRS nor hold one.
TopDirs(t) == {Split(q, "/")[1] : q \in {r \in DOMAIN t : Contains(r, "/")}}

\* get_excluded_directories taking a directory as shipped when its name occurs
\* anywhere in an entry of INCLUDE_DIRS
get_excluded_directories_substr(dirs, t) ==
    {item \o "/" : item \in
        {i \in TopDirs(t) :
            \/ StartsWith(i, ".")
            \/ ~\E k \in 1..Len(dirs) : Contains(dirs[k], i)}}

get_excluded_directories(dirs, t) ==
    {item \o "/" : item \in
        {i \in TopDirs(t) :
            \/ StartsWith(i, ".")
            \/ ~\E k \in 1..Len(dirs) : dirs[k] = i \/ StartsWith(dirs[k], i \o "/")}}

\* build.main, lines 252-257: the excluded directories are listed before the
\* archive is made.
ListExcluded ==
    /\ bpc = "idle"
    /\ ~excluded_dirs.listed
    /\ excluded_dirs' = [listed |-> TRUE, dirs |-> get_excluded_directories(cfg.dirs, tree)]
    /\ UNCHANGED <<cfg, bpc, root_i, dir_i, pending, zip_entries, included_files, skipped_files,
                   build_warnings, visits, artifact, zip_data>>
    /\ UNCHANGED <<tagVars, cmpVars, hdrVars, cssVars>>

\* zipf.write(filepath, arcname): the file's bytes are stored under arcname.
ZipWrite(filepath, arcname) ==
    /\ zip_entries' = Append(zip_entries, arcname)
    /\ zip_data' = [n \in DOMAIN zip_data \cup {arcname} |->
                      IF n = arcname THEN tree[normpath(filepath)] ELSE zip_data[n]]
    /\ included_files' = included_files + 1

\* zipf.write raises because the file cannot be opened: the with-block closes
\* the archive as it is, and the handler of lines 303-307 prints "Build
\* failed" and exits with status 1.
BuildFails ==
    /\ bpc' = "failed"
    /\ UNCHANGED <<zip_entries, zip_data, included_files, artifact>>

\* create_zip, lines 133-136: the counters are zeroed and the archive is opened
\* for writing under the output name.
OpenArchive ==
    /\ bpc = "idle"
    /\ zip_entries' = <<>>
    /\ zip_data' = <<>>
    /\ artifact' = "partial"
    /\ included_files' = 0
    /\ skipped_files' = 0
    /\ root_i' = 1
    /\ dir_i' = 1
    /\ bpc' = AfterRoots(1)
    /\ UNCHANGED <<cfg, pending, build_warnings, excluded_dirs, visits>>
    /\ UNCHANGED <<tagVars, cmpVars, hdrVars, cssVars>>

\* build.py run while no tagging run is under way.
BuildStart == tagpc \in {"idle", "done"} /\ OpenArchive

\* The root-file loop with the deny patterns applied to the root files too
AddRootFileFiltered ==
    /\ bpc = "roots"
    /\ root_i <= Len(cfg.root_files)
    /\ LET filename == cfg.root_files[root_i]
           filepath == path_join(SourceDir, filename)
       IN  /\ visits' = Append(visits, [op |-> "isfile", path |-> filepath])
           /\ IF isfile(tree, filepath) /\ ~should_skip_file(cfg.deny, filepath)
              THEN IF normpath(filepath) \in unreadable
                   THEN /\ BuildFails
                        /\ UNCHANGED <<build_warnings, root_i>>
                   ELSE /\ ZipWrite(filepath, PLUGIN_SLUG \o "/" \o filename)
                        /\ root_i' = root_i + 1
                        /\ bpc' = AfterRoots(root_i + 1)
                        /\ UNCHANGED <<build_warnings, artifact>>
              ELSE /\ build_warnings' = build_warnings \cup {filename}
                   /\ root_i' = root_i + 1
                   /\ bpc' = AfterRoots(root_i + 1)
                   /\ UNCHANGED <<zip_entries, zip_data, included_files, artifact>>
    /\ UNCHANGED <<cfg, dir_i, pending, skipped_files, excluded_dirs>>
    /\ UNCHANGED <<tagVars, cmpVars, hdrVars, cssVars>>

\* create_zip, lines 138-144: one iteration of the loop over INCLUDE_ROOT_FILES.
AddRootFile ==
    /\ bpc = "roots"
    /\ root_i <= Len(cfg.root_files)
    /\ LET filename == cfg.root_files[root_i]
           filepath == path_join(SourceDir, filename)
       IN  /\ visits' = Append(visits, [op |-> "isfile", path |-> filepath])
           /\ IF isfile(tree, filepath)
              THEN IF normpath(filepath) \in unreadable
                   THEN /\ BuildFails
                        /\ UNCHANGED <<build_warnings, root_i>>
                   ELSE /\ ZipWrite(filepath, PLUGIN_SLUG \o "/" \o filename)
                        /\ root_i' = root_i + 1
                        /\ bpc' = AfterRoots(root_i + 1)
                        /\ UNCHANGED <<build_warnings, artifact>>
              ELSE /\ build_warnings' = build_warnings \cup {filename}
                   /\ root_i' = root_i + 1
                   /\ bpc' = AfterRoots(root_i + 1)
                   /\ UNCHANGED <<zip_entries, zip_data, included_files, artifact>>
    /\ UNCHANGED <<cfg, dir_i, pending, skipped_files, excluded_dirs>>
    /\ UNCHANGED <<tagVars, cmpVars, hdrVars, cssVars>>

\* The directory loop walking the whole source directory for every entry
EnterDirWholeTree ==
    /\ bpc = "dirs"
    /\ dir_i <= Len(cfg.dirs)
    /\ LET dir_path == SourceDir
           found == IF isdir(tree, dir_path) THEN walk(tree, dir_path) ELSE {}
       IN  /\ visits' = Append(visits, [op |-> "isdir", path |-> dir_path])
           /\ IF found = {}
              THEN /\ dir_i' = dir_i + 1
                   /\ UNCHANGED <<bpc, pending>>
              ELSE /\ pending' = found
                   /\ bpc' = "walk"
                   /\ UNCHANGED dir_i
    /\ UNCHANGED <<cfg, root_i, zip_entries, included_files, skipped_files, build_warnings,
                   excluded_dirs, artifact, zip_data>>
    /\ UNCHANGED <<tagVars, cmpVars, hdrVars, cssVars>>

\* create_zip, lines 147-152: the next entry of INCLUDE_DIRS; a directory that
\* does not exist is passed over without a message, an existing one is handed
\* to os.walk.
EnterDir ==
    /\ bpc = "dirs"
    /\ dir_i <= Len(cfg.dirs)
    /\ LET dir_path == path_join(SourceDir, cfg.dirs[dir_i])
           found == IF isdir(tree, dir_path) THEN walk(tree, dir_path) ELSE {}
       IN  /\ visits' = Append(visits, [op |-> "isdir", path |-> dir_path])
           /\ IF found = {}
              THEN /\ dir_i' = dir_i + 1
                   /\ UNCHANGED <<bpc, pending>>
              ELSE /\ pending' = found
                   /\ bpc' = "walk"
                   /\ UNCHANGED dir_i
    /\ UNCHANGED <<cfg, root_i, zip_entries, included_files, skipped_files, build_warnings,
                   excluded_dirs, artifact, zip_data>>
    /\ UNCHANGED <<tagVars, cmpVars, hdrVars, cssVars>>

\* The walk loop counting a skipped file as included as well
VisitFileBothCounters ==
    /\ bpc = "walk"
    /\ \E w \in pending :
         LET filepath == path_join(w.root, w.filename)
             rel_path == relpath(filepath)
             leave == /\ pending' = pending \ {w}
                      /\ IF pending = {w}
                         THEN bpc' = "dirs" /\ dir_i' = dir_i + 1
                         ELSE UNCHANGED <<bpc, dir_i>>
         IN  /\ visits' = Append(visits, [op |-> "decide", path |-> filepath])
             /\ IF should_skip_file(cfg.deny, filepath)
                THEN /\ skipped_files' = skipped_files + 1
                     /\ included_files' = included_files + 1
                     /\ leave
                     /\ UNCHANGED <<zip_entries, zip_data, artifact>>
                ELSE IF normpath(filepath) \in unreadable
                THEN /\ BuildFails
                     /\ UNCHANGED <<skipped_files, pending, dir_i>>
                ELSE /\ ZipWrite(filepath, PLUGIN_SLUG \o "/" \o rel_path)
                     /\ leave
                     /\ UNCHANGED <<skipped_files, artifact>>
    /\ UNCHANGED <<cfg, root_i, build_warnings, excluded_dirs>>
    /\ UNCHANGED <<tagVars, cmpVars, hdrVars, cssVars>>

\* create_zip, lines 153-163: one file of the walk, in whatever order os.walk
\* lists it; after the last one the loop goes on to the next directory.
VisitFile ==
    /\ bpc = "walk"
    /\ \E w \in pending :
         LET filepath == path_join(w.root, w.filename)
             rel_path == relpath(filepath)
             leave == /\ pending' = pending \ {w}
                      /\ IF pending = {w}
                         THEN bpc' = "dirs" /\ dir_i' = dir_i + 1
                         ELSE UNCHANGED <<bpc, dir_i>>
         IN  /\ visits' = Append(visits, [op |-> "decide", path |-> filepath])
             /\ IF should_skip_file(cfg.deny, filepath)
                THEN /\ skipped_files' = skipped_files + 1
                     /\ leave
                     /\ UNCHANGED <<zip_entries, zip_data, included_files, artifact>>
                ELSE IF normpath(filepath) \in unreadable
                THEN /\ BuildFails
                     /\ UNCHANGED <<skipped_files, pending, dir_i>>
                ELSE /\ ZipWrite(filepath, PLUGIN_SLUG \o "/" \o rel_path)
                     /\ leave
                     /\ UNCHANGED <<skipped_files, artifact>>
    /\ UNCHANGED <<cfg, root_i, build_warnings, excluded_dirs>>
    /\ UNCHANGED <<tagVars, cmpVars, hdrVars, cssVars>>

\* create_zip, line 165: the with-block closes the archive and the counters are
\* returned.
BuildFinish ==
    /\ bpc = "dirs"
    /\ dir_i > Len(cfg.dirs)
    /\ bpc' = "done"
    /\ artifact' = "complete"
    /\ UNCHANGED <<cfg, root_i, dir_i, pending, zip_entries, included_files, skipped_files,
                   build_warnings, excluded_dirs, visits, zip_data>>
    /\ UNCHANGED <<tagVars, cmpVars, hdrVars, cssVars>>

\* The part of a path after its last "/".
NameOf(p) ==
    CHOOSE n \in {SubSeq(p, i, Len(p)) : i \in 1..(Len(p) + 1)} :
        /\ ~Contains(n, "/")
        /\ (n = p \/ EndsWith(p, "/" \o n))

\* The inclusion-mode decision as the rules state it: an allow-listed root
\* file, or a file under an allow-listed directory whose name no deny pattern
\* ("*" and a suffix, or an exact name) matches.
UnderDir(p, d) == d = "." \/ StartsWith(p, d \o "/")

DenyName(deny, p) ==
    \E k \in 1..Len(deny) :
        IF Char(deny[k], 1) = "*"
        THEN EndsWith(NameOf(p), SubSeq(deny[k], 2, Len(deny[k])))
        ELSE NameOf(p) = deny[k]

ShouldShip(c, p) ==
    \/ p \in Range(c.root_files)
    \/ /\ \E k \in 1..Len(c.dirs) : UnderDir(p, c.dirs[k])
       /\ ~DenyName(c.deny, p)

\* The restricted-tier assembly, which this repository leaves to the
\* distribution service: every file the rules include, except the files that
\* carry the tag marker.
AssembleRestricted ==
    /\ tagpc \in {"idle", "done"}
    /\ ~free_zip.exists
    /\ free_zip' = [exists |-> TRUE,
                    names |-> {PLUGIN_SLUG \o "/" \o q :
                                 q \in {r \in DOMAIN tree : /\ ShouldShip(cfg, r)
                                                           /\ ~Contains(tree[r], Marker)}}]
    /\ UNCHANGED <<premium_zip, cpc, buckets, free_warning, cmp_msgs>>
    /\ UNCHANGED <<tagVars, buildVars, hdrVars, cssVars>>

-----------------------------------------------------------------------------
(* File texts *)

Scenario3 == "<header>\n/**\n * Desc\n */\n code"

Lines == {"<?php", "/**", " */", "/** One */", "code();", "code();\r", MarkerLine}

GenTexts == {Join(ls, "\n") : ls \in UNION {[1..n -> Lines] : n \in 0..MaxLines}}

WellFormed == "<?php\n/**\n * Desc\n */\ncode();"

Tagged == "<?php\n/**\n * Desc\n * @freemius_premium_only\n */\ncode();"

NoDocblock == "<?php\ncode();"

OneLiner == "<?php\n/** One */\ncode();"

BatchTexts == {WellFormed, Tagged, NoDocblock, OneLiner}

NoCall == [path |-> "", result |-> FALSE, warn |-> "", before |-> ""]

\* create_zip not in use.
BuildIdle ==
    /\ cfg = Shipped
    /\ bpc = "idle"
    /\ root_i = 1
    /\ dir_i = 1
    /\ pending = {}
    /\ zip_entries = <<>>
    /\ included_files = 0
    /\ skipped_files = 0
    /\ build_warnings = {}
    /\ excluded_dirs = [listed |-> FALSE, dirs |-> {}]
    /\ visits = <<>>
    /\ artifact = "absent"
    /\ zip_data = <<>>

\* The header updater not in use.
NoStats ==
    [php_updated |-> 0, php_skipped |-> 0, php_failed |-> 0,
     js_updated |-> 0, js_skipped |-> 0, js_failed |-> 0,
     css_updated |-> 0, css_skipped |-> 0, css_failed |-> 0]

HdrIdle ==
    /\ hpc = "idle"
    /\ hdr_pending = {}
    /\ stats = NoStats
    /\ hdr_log = {}
    /\ hdr_calls = 0

NoCssCall == [path |-> "", before |-> "", had_backup |-> FALSE, changes |-> <<>>, result |-> 0]

\* css-variable-replacer.py has not been run.
CssIdle ==
    /\ css_pc = "idle"
    /\ css_content = ""
    /\ css_original_content = ""
    /\ css_todo = {}
    /\ css_fix_i = 1
    /\ css_changes_made = <<>>
    /\ css_runs = 0
    /\ css_last = NoCssCall

\* The comparator not in use.
CmpIdle ==
    /\ free_zip = [exists |-> FALSE, names |-> {}]
    /\ premium_zip = [exists |-> FALSE, names |-> {}]
    /\ cpc = "start"
    /\ buckets = [analytics |-> {}, api |-> {}, discounts |-> {}, recurring |-> {},
                  export_import |-> {}, other |-> {}]
    /\ free_warning = [shown |-> FALSE, count |-> 0, listed |-> {}]
    /\ cmp_msgs = {}

\* The tagger not in use, on an empty tree.
TagIdle ==
    /\ tree = <<>>
    /\ unreadable = {}
    /\ tag_i = 1 /\ annotated = 0 /\ skipped = 0 /\ errors = 0 /\ printed = <<>>
    /\ tagpc = "idle"
    /\ inserted = <<>>
    /\ orig = <<>>
    /\ calls = 0
    /\ last = NoCall

\* The tagger called directly on one file of any generated text.
InitTag ==
    /\ \E text \in GenTexts \cup {Scenario3} : tree = [p \in {TagFile} |-> text]
    /\ unreadable = {}
    /\ tag_i = 1 /\ annotated = 0 /\ skipped = 0 /\ errors = 0 /\ printed = <<>>
    /\ tagpc = "call"
    /\ inserted = [p \in {TagFile} |-> 0]
    /\ orig = tree
    /\ calls = 0
    /\ last = NoCall
    /\ CmpIdle
    /\ BuildIdle
    /\ HdrIdle
    /\ CssIdle

NextTag == TagCall

SpecTag == InitTag /\ [][NextTag]_vars

\* The batch of main over a tree in which each premium-only file is missing,
\* unreadable, or holds one of the batch texts.
InitBatch ==
    /\ \E present \in SUBSET {PREMIUM_ONLY_FILES[i] : i \in 1..BatchLen} :
         /\ tree \in [present -> BatchTexts]
         /\ unreadable \in SUBSET present
         /\ \A p \in unreadable : tree[p] = WellFormed
    /\ tag_i = 1 /\ annotated = 0 /\ skipped = 0 /\ errors = 0 /\ printed = <<>>
    /\ tagpc = "loop"
    /\ inserted = [p \in {PREMIUM_ONLY_FILES[i] : i \in 1..BatchLen} |-> 0]
    /\ orig = tree
    /\ calls = 0
    /\ last = NoCall
    /\ CmpIdle
    /\ BuildIdle
    /\ HdrIdle
    /\ CssIdle

NextBatch == MainStep \/ MainSummary

SpecBatch == InitBatch /\ [][NextBatch]_vars

\* The rule configuration of end-to-end scenario 1 and, with the force-include, 2.
ScenarioFiles == {"a.php", "b.md", "sub/c.php", "sub/d.log"}

Scenario1 == [root_files |-> <<>>, dirs |-> <<".">>, deny |-> <<"*.md", "*.log">>]

Scenario2 == [root_files |-> <<"b.md">>, dirs |-> <<".">>, deny |-> <<"*.md", "*.log">>]

\* Paths a generated plugin tree is made of.
PluginPaths ==
    { "smart-cycle-discounts.php", "LICENSE", "README.md", "readme.txt/old.txt",
      "includes/class-loader.php", "includes/core/notes.md", "includes/.gitkeep",
      "includes/docs.md/x.php",
      "includes-old/x.php", ".github/ci.yml", "tests/deep/er/test-x.php",
      "resources/assets/css/admin.css", "resources/assets/scss/admin.scss",
      "vendor/freemius/start.php", "vendor/autoload.php", "assets/index.php" }

PluginTrees == {T \in SUBSET PluginPaths : Cardinality(T) <= MaxTreeFiles}

\* create_zip over a generated tree, under the shipped rules or a scenario's.
InitBuild ==
    /\ \/ cfg = Shipped /\ \E T \in PluginTrees : tree = [q \in T |-> WellFormed]
       \/ cfg \in {Scenario1, Scenario2}
          /\ \E T \in SUBSET ScenarioFiles : tree = [q \in T |-> WellFormed]
    /\ unreadable \in {U \in SUBSET DOMAIN tree : Cardinality(U) <= 1}
    /\ tag_i = 1 /\ annotated = 0 /\ skipped = 0 /\ errors = 0 /\ printed = <<>>
    /\ tagpc = "idle"
    /\ inserted = [q \in DOMAIN tree |-> 0]
    /\ orig = tree
    /\ calls = 0
    /\ last = NoCall
    /\ bpc = "idle" /\ root_i = 1 /\ dir_i = 1 /\ pending = {}
    /\ zip_entries = <<>> /\ included_files = 0 /\ skipped_files = 0 /\ build_warnings = {}
    /\ excluded_dirs = [listed |-> FALSE, dirs |-> {}]
    /\ visits = <<>> /\ artifact = "absent" /\ zip_data = <<>>
    /\ CmpIdle
    /\ HdrIdle
    /\ CssIdle

NextBuild == ListExcluded \/ BuildStart \/ AddRootFile \/ EnterDir \/ VisitFile \/ BuildFinish

SpecBuild == InitBuild /\ [][NextBuild]_vars

\* Paths of a tree the tagger and the two assemblies work on.
TierPaths ==
    {PREMIUM_ONLY_FILES[i] : i \in 1..BatchLen}
        \cup {"includes/class-loader.php", "LICENSE", "README.md"}

\* The tagger's batch over a generated tree, then the two assemblies of it.
InitTiers ==
    /\ \E T \in {S \in SUBSET TierPaths : Cardinality(S) <= MaxTreeFiles} :
         tree \in [T -> {WellFormed, NoDocblock}]
    /\ unreadable = {}
    /\ tag_i = 1 /\ annotated = 0 /\ skipped = 0 /\ errors = 0 /\ printed = <<>>
    /\ tagpc = "loop"
    /\ inserted = [q \in {PREMIUM_ONLY_FILES[i] : i \in 1..BatchLen} |-> 0]
    /\ orig = tree
    /\ calls = 0
    /\ last = NoCall
    /\ cfg = Shipped
    /\ bpc = "idle" /\ root_i = 1 /\ dir_i = 1 /\ pending = {}
    /\ zip_entries = <<>> /\ included_files = 0 /\ skipped_files = 0 /\ build_warnings = {}
    /\ excluded_dirs = [listed |-> FALSE, dirs |-> {}]
    /\ visits = <<>> /\ artifact = "absent" /\ zip_data = <<>>
    /\ CmpIdle
    /\ HdrIdle
    /\ CssIdle

NextTiers ==
    \/ MainStep
    \/ MainSummary
    \/ BuildStart
    \/ AddRootFile
    \/ EnterDir
    \/ VisitFile
    \/ BuildFinish
    \/ AssembleRestricted

SpecTiers == InitTiers /\ [][NextTiers]_vars

-----------------------------------------------------------------------------
(* compare-versions.py *)

UpperCase == "ABCDEFGHIJKLMNOPQRSTUVWXYZ"

LowerCase == "abcdefghijklmnopqrstuvwxyz"

LowerChar(c) ==
    IF \E i \in 1..26 : Char(UpperCase, i) = c
    THEN Char(LowerCase, CHOOSE i \in 1..26 : Char(UpperCase, i) = c)
    ELSE c

\* str.lower
RECURSIVE Lower(_)
Lower(s) == IF Len(s) = 0 THEN "" ELSE LowerChar(Char(s, 1)) \o Lower(SubSeq(s, 2, Len(s)))

\* get_file_list(zip_path): the set of names of the archive, empty when it is missing
get_file_list(zip) == IF ~zip.exists THEN {} ELSE zip.names

MainFileName == "smart-cycle-discounts/smart-cycle-discounts.php"

NoBuckets ==
    [analytics |-> {}, api |-> {}, discounts |-> {}, recurring |-> {},
     export_import |-> {}, other |-> {}]

\* The six list comprehensions of main over only_in_premium.
Categorize(only_in_premium) ==
    LET analytics == {f \in only_in_premium : Contains(Lower(f), "analytics")}
        api == {f \in only_in_premium : Contains(f, "/api/")}
        discounts == {f \in only_in_premium :
                        Contains(f, "tiered") \/ Contains(f, "bogo") \/ Contains(f, "spend-threshold")}
        recurring == {f \in only_in_premium : Contains(Lower(f), "recurring")}
        export_import == {f \in only_in_premium : Contains(f, "export") \/ Contains(f, "import")}
    IN  [analytics |-> analytics, api |-> api, discounts |-> discounts,
         recurring |-> recurring, export_import |-> export_import,
         other |-> {f \in only_in_premium :
                      f \notin analytics \cup api \cup discounts \cup recurring \cup export_import}]

NoWarning == [shown |-> FALSE, count |-> 0, listed |-> {}]

\* The sets sorted(only_in_free)[:5] can be: all of it, or five of its paths.
FirstFive(S) ==
    {L \in SUBSET S : Cardinality(L) = IF Cardinality(S) < 5 THEN Cardinality(S) ELSE 5}

\* main, lines 45-67: the existence checks. A missing FREE archive ends the
\* run; a missing PREMIUM archive is only announced.
CheckBuilds ==
    /\ cpc = "start"
    /\ IF ~free_zip.exists
       THEN /\ cpc' = "returned"
            /\ cmp_msgs' = cmp_msgs \cup {"FREE version not found"}
       ELSE /\ cpc' = "compare"
            /\ cmp_msgs' = IF ~premium_zip.exists
                           THEN cmp_msgs \cup {"PREMIUM version not found"}
                           ELSE cmp_msgs
    /\ UNCHANGED <<free_zip, premium_zip, buckets, free_warning>>
    /\ UNCHANGED <<tagVars, buildVars, hdrVars, cssVars>>

\* main, lines 69-141: the file lists, the categories and the warning.
CompareFileLists ==
    /\ cpc = "compare"
    /\ LET free_files == get_file_list(free_zip)
           premium_files == IF premium_zip.exists THEN get_file_list(premium_zip) ELSE {}
           only_in_premium == premium_files \ free_files
           only_in_free == free_files \ premium_files
       IN  IF premium_files # {}
           THEN /\ buckets' = IF only_in_premium # {} THEN Categorize(only_in_premium) ELSE buckets
                /\ IF only_in_free # {}
                   THEN \E L \in FirstFive(only_in_free) :
                           free_warning' = [shown |-> TRUE, count |-> Cardinality(only_in_free),
                                            listed |-> L]
                   ELSE free_warning' = free_warning
           ELSE UNCHANGED <<buckets, free_warning>>
    /\ cpc' = "config"
    /\ UNCHANGED <<free_zip, premium_zip, cmp_msgs>>
    /\ UNCHANGED <<tagVars, buildVars, hdrVars, cssVars>>

\* main, lines 143-179: the main plugin file is read from each archive;
\* z.open raises KeyError when the archive does not hold it.
CompareConfig ==
    /\ cpc = "config"
    /\ IF MainFileName \notin free_zip.names
          \/ (premium_zip.exists /\ MainFileName \notin premium_zip.names)
       THEN /\ cpc' = "crashed"
            /\ UNCHANGED cmp_msgs
       ELSE /\ cpc' = "done"
            /\ cmp_msgs' = cmp_msgs \cup {"Version comparison complete"}
    /\ UNCHANGED <<free_zip, premium_zip, buckets, free_warning>>
    /\ UNCHANGED <<tagVars, buildVars, hdrVars, cssVars>>

\* Archive paths the comparator is run on.
ManifestNames ==
    { MainFileName,
      "smart-cycle-discounts/includes/core/analytics/class-export-service.php",
      "smart-cycle-discounts/includes/api/class-rest-api-manager.php",
      "smart-cycle-discounts/includes/core/discounts/strategies/class-bogo-strategy.php",
      "smart-cycle-discounts/includes/class-recurring-handler.php",
      "smart-cycle-discounts/includes/admin/ajax/handlers/class-import-handler.php",
      "smart-cycle-discounts/includes/class-loader.php",
      "smart-cycle-discounts/languages/Analytics-de_DE.po" }

Manifests == {S \in SUBSET ManifestNames : Cardinality(S) <= MaxManifest}

Zips == {[exists |-> FALSE, names |-> {}]} \cup {[exists |-> TRUE, names |-> S] : S \in Manifests}

CmpStart ==
    /\ cpc = "start"
    /\ buckets = NoBuckets
    /\ free_warning = NoWarning
    /\ cmp_msgs = {}

InitCompare ==
    /\ free_zip \in Zips
    /\ premium_zip \in Zips
    /\ CmpStart
    /\ TagIdle
    /\ BuildIdle
    /\ HdrIdle
    /\ CssIdle

NextCompare == CheckBuilds \/ CompareFileLists \/ CompareConfig

SpecCompare == InitCompare /\ [][NextCompare]_vars

-----------------------------------------------------------------------------
(* update-file-headers.py *)

UpperChar(c) ==
    IF \E i \in 1..26 : Char(LowerCase, i) = c
    THEN Char(UpperCase, CHOOSE i \in 1..26 : Char(LowerCase, i) = c)
    ELSE c

IsCased(c) == \E i \in 1..26 : Char(LowerCase, i) = c \/ Char(UpperCase, i) = c

\* str.title(): a letter that follows a letter is lowered, any other letter is raised
RECURSIVE TitleFrom(_, _)
TitleFrom(s, after_letter) ==
    IF Len(s) = 0 THEN ""
    ELSE LET c == Char(s, 1) IN
         (IF after_letter THEN LowerChar(c) ELSE UpperChar(c))
             \o TitleFrom(SubSeq(s, 2, Len(s)), IsCased(c))

Title(s) == TitleFrom(s, FALSE)

\* The last index of "." in name, 0 when there is none
RECURSIVE LastDot(_, _)
LastDot(name, i) == IF i = 0 THEN 0 ELSE IF Char(name, i) = "." THEN i ELSE LastDot(name, i - 1)

\* PurePath.stem of a name whose last "." is at index k
StemOf(name, k) == IF k > 1 /\ k < Len(name) THEN SubSeq(name, 1, k - 1) ELSE name

\* Path(filepath).stem: the name without its last suffix
Stem(filepath) == StemOf(basename(filepath), LastDot(basename(filepath), Len(basename(filepath))))

\* Path(filepath).parts of a relative path
Parts(filepath) == Split(filepath, "/")

\* filename.replace(prefix, '').replace('-', ' ').title()
title_words(filename, prefix) == Title(Replace(Replace(filename, prefix, ""), "-", " "))

\* get_file_description, lines 29-39, on the stem
describe(filename) ==
    IF StartsWith(filename, "class-") THEN title_words(filename, "class-") \o " Class"
    ELSE IF StartsWith(filename, "interface-") THEN title_words(filename, "interface-") \o " Interface"
    ELSE IF StartsWith(filename, "trait-") THEN title_words(filename, "trait-") \o " Trait"
    ELSE Title(Replace(filename, "-", " "))

get_file_description(filepath) == describe(Stem(filepath))

\* path_parts.index(name)
index(path_parts, name) ==
    CHOOSE i \in 1..Len(path_parts) :
        /\ path_parts[i] = name
        /\ \A j \in 1..(i - 1) : path_parts[j] # name

\* get_subpackage, lines 46-58, on the parts
subpackage(path_parts) ==
    IF "includes" \in Range(path_parts)
    THEN "SmartCycleDiscounts/"
             \o Join(SubSeq(path_parts, index(path_parts, "includes"), Len(path_parts)), "/")
    ELSE IF "resources" \in Range(path_parts)
    THEN "SmartCycleDiscounts/"
             \o Join(SubSeq(path_parts, index(path_parts, "resources"), Len(path_parts)), "/")
    ELSE "SmartCycleDiscounts"

get_subpackage(filepath) == subpackage(Parts(filepath))

\* The docblock the three create_*_header functions share
HeaderBlock(filepath) ==
    Join(<< "/**",
            " * " \o get_file_description(filepath),
            " *",
            " * @package    SmartCycleDiscounts",
            " * @subpackage " \o get_subpackage(filepath),
            " * @author     Webstepper.io <contact@webstepper.io>",
            " * @copyright  2025 Webstepper.io",
            " * @license    GPL-3.0-or-later https://www.gnu.org/licenses/gpl-3.0.html",
            " * @link       https://webstepper.io/wordpress-plugins/smart-cycle-discounts",
            " * @since      1.0.0",
            " */",
            "" >>, "\n")

create_php_header(filepath) == "<?php\n" \o HeaderBlock(filepath)

create_js_header(filepath) == HeaderBlock(filepath)

create_css_header(filepath) == HeaderBlock(filepath)

\* The position after the run of whitespace (\s*) that starts at i
RECURSIVE SkipSpace(_, _)
SkipSpace(s, i) ==
    IF i <= Len(s) /\ Char(s, i) \in Whitespace THEN SkipSpace(s, i + 1) ELSE i

\* The end of /\*\* .*? \*/ when "/**" stands at j and the first "*/" after it
\* at k; 0 when either is missing
BlockEnd(s, j, k) ==
    IF j + 2 <= Len(s) /\ SubSeq(s, j, j + 2) = "/**" /\ k > 0 THEN k + 1 ELSE 0

\* The same with the "/**" expected at j
BlockEndFrom(s, j) == BlockEnd(s, j, Find(s, "*/", j + 3))

\* The end (number of characters up to and including the match) of the regex
\* prefix \s* /\*\* .*? \*/ anchored at i, with prefix already matched up to
\* i - 1; 0 when it does not match there
BlockEndAt(s, i) == BlockEndFrom(s, SkipSpace(s, i))

\* The least index from which a match of <\?php\s*/\*\*.*?\*/ starts, 0 when none
PhpHeaderStart(s) ==
    LET starts == {k \in 1..Len(s) : StartsWith(SubSeq(s, k, Len(s)), "<?php")
                                      /\ BlockEndAt(s, k + 5) > 0}
    IN  IF starts = {} THEN 0 ELSE CHOOSE k \in starts : \A m \in starts : k <= m

\* The end of the match that starts at k
PhpHeaderEndFrom(s, k) == IF k = 0 THEN 0 ELSE BlockEndAt(s, k + 5)

\* re.search(r'<\?php\s*/\*\*.*?\*/', content, re.DOTALL).end()
PhpHeaderEnd(s) == PhpHeaderEndFrom(s, PhpHeaderStart(s))

\* extract_existing_header(content, file_type)[1]: the end of the existing
\* header, 0 when there is none
extract_existing_header(content, file_type) ==
    IF file_type = "php" THEN PhpHeaderEnd(content) ELSE BlockEndAt(content, 1)

StrictTypes == "\ndeclare(strict_types=1);"

\* content[code_start:].lstrip()
remaining_code(content, code_start) == LStrip(SubSeq(content, code_start + 1, Len(content)))

\* update_php_file, lines 156-163: where the code starts, given the end of the
\* old header and the index of the strict_types match (0 when there is none)
code_start(header_end, strict) ==
    IF strict > 0 THEN strict + Len(StrictTypes) - 1 ELSE header_end

\* update_php_file, lines 165-174
new_php_content(filepath, content, header_end, strict) ==
    create_php_header(filepath)
        \o (IF strict > 0 THEN "\ndeclare(strict_types=1);\n" ELSE "")
        \o "\n" \o remaining_code(content, code_start(header_end, strict))

\* update_php_file, lines 143-180, on the text read
update_php_content(filepath, bytes, content) ==
    IF Contains(SubSeq(content, 1, IF Len(content) < 500 THEN Len(content) ELSE 500),
                "Plugin Name:")
    THEN [result |-> FALSE, bytes |-> bytes, wrote |-> FALSE]
    ELSE [result |-> TRUE,
          bytes |-> WriteText(new_php_content(filepath, content,
                                              extract_existing_header(content, "php"),
                                              Find(content, StrictTypes, 1))),
          wrote |-> TRUE]

\* update_php_file on a readable file holding `bytes`
update_php_text(filepath, bytes) == update_php_content(filepath, bytes, ReadText(bytes))

\* update_js_file / update_css_file, lines 192-208, on the text read
update_block_content(new_header, content, file_type) ==
    [result |-> TRUE,
     bytes |-> WriteText(new_header \o "\n"
                  \o remaining_code(content, extract_existing_header(content, file_type))),
     wrote |-> TRUE]

\* A file whose open or read raises is reported and left alone
UpdateFailed == [result |-> FALSE, bytes |-> "", wrote |-> FALSE]

update_php_file(t, unr, filepath) ==
    IF filepath \notin DOMAIN t \/ filepath \in unr THEN UpdateFailed
    ELSE update_php_text(filepath, t[filepath])

update_js_file(t, unr, filepath) ==
    IF filepath \notin DOMAIN t \/ filepath \in unr THEN UpdateFailed
    ELSE update_block_content(create_js_header(filepath), ReadText(t[filepath]), "js")

update_css_file(t, unr, filepath) ==
    IF filepath \notin DOMAIN t \/ filepath \in unr THEN UpdateFailed
    ELSE update_block_content(create_css_header(filepath), ReadText(t[filepath]), "css")

\* Path.rglob(pattern) under directory dir of the plugin root
rglob(t, dir, pattern) ==
    {q \in DOMAIN t : StartsWith(q, dir \o "/") /\ fnmatch(basename(q), pattern)}

Phases == <<"php", "js", "css">>

PhaseFiles(ph, t) ==
    IF ph = "php" THEN rglob(t, "includes", "*.php")
    ELSE IF ph = "js" THEN rglob(t, "resources/assets/js", "*.js")
    ELSE IF ph = "css" THEN rglob(t, "resources/assets/css", "*.css")
    ELSE {}

\* The first loop of main, from the k-th on, that has a file to yield
RECURSIVE PhaseFrom(_, _)
PhaseFrom(k, t) ==
    IF k > Len(Phases) THEN "summary"
    ELSE IF PhaseFiles(Phases[k], t) = {} THEN PhaseFrom(k + 1, t)
    ELSE Phases[k]

\* main, lines 253-271: the counters are zeroed and the first loop is entered.
HdrStart ==
    /\ hpc = "idle"
    /\ stats' = NoStats
    /\ hpc' = PhaseFrom(1, tree)
    /\ hdr_pending' = PhaseFiles(PhaseFrom(1, tree), tree)
    /\ UNCHANGED <<hdr_log, hdr_calls>>
    /\ UNCHANGED <<tagVars, cmpVars, buildVars, cssVars>>

\* The file w of loop k is done with: the loop goes on, or the next loop that
\* has a file starts.
HdrLeave(k, w) ==
    IF hdr_pending = {w}
    THEN /\ hpc' = PhaseFrom(k + 1, tree)
         /\ hdr_pending' = PhaseFiles(PhaseFrom(k + 1, tree), tree)
    ELSE /\ hdr_pending' = hdr_pending \ {w}
         /\ UNCHANGED hpc

HdrNote(what, w) == hdr_log' = hdr_log \cup {[what |-> what, path |-> w]}

\* The tree after the update_*_file call on w that returned r
Written(t, w, r) == IF r.wrote THEN [t EXCEPT ![w] = r.bytes] ELSE t

\* What one update_*_file call that returned r does to the tree and to the
\* counters of its type
HdrUpdate(w, r, updated, failed) ==
    /\ tree' = Written(tree, w, r)
    /\ IF r.result
       THEN stats' = [stats EXCEPT ![updated] = @ + 1] /\ HdrNote("updated", w)
       ELSE stats' = [stats EXCEPT ![failed] = @ + 1] /\ HdrNote("failed", w)

\* main, lines 272-285: one file of includes_dir.rglob('*.php').
HdrPhpFile ==
    /\ hpc = "php"
    /\ \E w \in hdr_pending :
         /\ IF "vendor" \in Range(Parts(w)) \/ "node_modules" \in Range(Parts(w))
            THEN HdrNote("passed", w) /\ UNCHANGED <<stats, tree>>
            ELSE IF "freemius" \in Range(Parts(w)) \/ Contains(w, "wordpress-sdk")
            THEN /\ stats' = [stats EXCEPT !.php_skipped = @ + 1]
                 /\ HdrNote("third-party", w)
                 /\ UNCHANGED tree
            ELSE HdrUpdate(w, update_php_file(tree, unreadable, w), "php_updated", "php_failed")
         /\ HdrLeave(1, w)
    /\ UNCHANGED hdr_calls
    /\ UNCHANGED <<unreadable, tag_i, annotated, skipped, errors, printed, tagpc, inserted,
                   orig, calls, last>>
    /\ UNCHANGED <<cmpVars, buildVars, cssVars>>

\* 'min.js' in js_file.name / 'min.css' in css_file.name
IsMinified(name, ext) == Contains(name, ext)

\* main, lines 291-303: one file of js_dir.rglob('*.js').
HdrJsFile ==
    /\ hpc = "js"
    /\ \E w \in hdr_pending :
         /\ IF "node_modules" \in Range(Parts(w)) \/ "vendor" \in Range(Parts(w))
            THEN HdrNote("passed", w) /\ UNCHANGED <<stats, tree>>
            ELSE IF IsMinified(basename(w), "min.js")
            THEN /\ stats' = [stats EXCEPT !.js_skipped = @ + 1]
                 /\ HdrNote("minified", w)
                 /\ UNCHANGED tree
            ELSE HdrUpdate(w, update_js_file(tree, unreadable, w), "js_updated", "js_failed")
         /\ HdrLeave(2, w)
    /\ UNCHANGED hdr_calls
    /\ UNCHANGED <<unreadable, tag_i, annotated, skipped, errors, printed, tagpc, inserted,
                   orig, calls, last>>
    /\ UNCHANGED <<cmpVars, buildVars, cssVars>>

\* main, lines 309-321: one file of css_dir.rglob('*.css').
HdrCssFile ==
    /\ hpc = "css"
    /\ \E w \in hdr_pending :
         /\ IF "node_modules" \in Range(Parts(w)) \/ "vendor" \in Range(Parts(w))
            THEN HdrNote("passed", w) /\ UNCHANGED <<stats, tree>>
            ELSE IF IsMinified(basename(w), "min.css")
            THEN /\ stats' = [stats EXCEPT !.css_skipped = @ + 1]
                 /\ HdrNote("minified", w)
                 /\ UNCHANGED tree
            ELSE HdrUpdate(w, update_css_file(tree, unreadable, w), "css_updated", "css_failed")
         /\ HdrLeave(3, w)
    /\ UNCHANGED hdr_calls
    /\ UNCHANGED <<unreadable, tag_i, annotated, skipped, errors, printed, tagpc, inserted,
                   orig, calls, last>>
    /\ UNCHANGED <<cmpVars, buildVars, cssVars>>

\* main, lines 323-351: the summary is printed.
HdrSummary ==
    /\ hpc = "summary"
    /\ hpc' = "done"
    /\ UNCHANGED <<hdr_pending, stats, hdr_log, hdr_calls>>
    /\ UNCHANGED <<tagVars, cmpVars, buildVars, cssVars>>

\* Paths of a tree the header updater runs over.
HeaderPaths ==
    { "includes/class-loader.php", "includes/vendor/lib.php", "includes/vendor-extra/lib.php",
      "includes/freemius/start.php", "includes/wordpress-sdk-bridge/class-bridge.php",
      "includes/notes.md",
      "resources/assets/js/admin.js", "resources/assets/js/app.min.js",
      "resources/assets/js/wizard.js", "resources/assets/js/vendor/chart.js",
      "resources/assets/css/admin.css", "resources/assets/css/main.min.css",
      "resources/assets/css/style.css", "assets/legacy.js" }

OldBlock == "/**\n * Old\n */\nbody {}"

NoBlock == "body {}"

HeaderTextsOf(q) == IF EndsWith(q, ".php") THEN {WellFormed, NoDocblock} ELSE {OldBlock, NoBlock}

\* A run of update-file-headers.py over a generated tree.
InitHeaders ==
    /\ \E T \in {S \in SUBSET HeaderPaths : Cardinality(S) <= MaxTreeFiles} :
         /\ tree \in [T -> {WellFormed, NoDocblock, OldBlock, NoBlock}]
         /\ \A q \in T : tree[q] \in HeaderTextsOf(q)
    /\ unreadable = {}
    /\ tag_i = 1 /\ annotated = 0 /\ skipped = 0 /\ errors = 0 /\ printed = <<>>
    /\ tagpc = "idle"
    /\ inserted = [q \in DOMAIN tree |-> 0]
    /\ orig = tree
    /\ calls = 0
    /\ last = NoCall
    /\ CmpIdle
    /\ BuildIdle
    /\ HdrIdle
    /\ CssIdle

NextHeaders == HdrStart \/ HdrPhpFile \/ HdrJsFile \/ HdrCssFile \/ HdrSummary

SpecHeaders == InitHeaders /\ [][NextHeaders]_vars

\* A direct call update_php_file(file) on the first premium-only file.
UpdatePhpCall ==
    /\ hpc = "call"
    /\ hdr_calls < MaxCalls
    /\ tree' = Written(tree, TagFile, update_php_file(tree, unreadable, TagFile))
    /\ hdr_calls' = hdr_calls + 1
    /\ UNCHANGED <<hpc, hdr_pending, stats, hdr_log>>
    /\ UNCHANGED <<unreadable, tag_i, annotated, skipped, errors, printed, tagpc, inserted,
                   orig, calls, last>>
    /\ UNCHANGED <<cmpVars, buildVars, cssVars>>

StrictTyped == "<?php\n/**\n * Desc\n */\n\ndeclare(strict_types=1);\n\ncode();"

MainPluginFile == "<?php\n/**\n * Plugin Name: Smart Cycle Discounts\n */\ncode();"

PersistTexts == BatchTexts \cup {Scenario3, StrictTyped, MainPluginFile}

\* The tagger and the header updater called on one file, in any order.
InitPersist ==
    /\ \E text \in PersistTexts : tree = [q \in {TagFile} |-> text]
    /\ unreadable = {}
    /\ tag_i = 1 /\ annotated = 0 /\ skipped = 0 /\ errors = 0 /\ printed = <<>>
    /\ tagpc = "call"
    /\ inserted = [q \in {TagFile} |-> 0]
    /\ orig = tree
    /\ calls = 0
    /\ last = NoCall
    /\ CmpIdle
    /\ BuildIdle
    /\ hpc = "call" /\ hdr_pending = {} /\ stats = NoStats /\ hdr_log = {} /\ hdr_calls = 0
    /\ CssIdle

NextPersist == TagCall \/ UpdatePhpCall

SpecPersist == InitPersist /\ [][NextPersist]_vars

\* add-premium-annotations.py and build.py started on the same tree with
\* nothing to keep them apart.
InitConcurrent ==
    /\ \E T \in {S \in SUBSET TierPaths : Cardinality(S) <= MaxTreeFiles} :
         tree \in [T -> {WellFormed, NoDocblock}]
    /\ unreadable = {}
    /\ tag_i = 1 /\ annotated = 0 /\ skipped = 0 /\ errors = 0 /\ printed = <<>>
    /\ tagpc = "loop"
    /\ inserted = [q \in {PREMIUM_ONLY_FILES[i] : i \in 1..BatchLen} |-> 0]
    /\ orig = tree
    /\ calls = 0
    /\ last = NoCall
    /\ CmpIdle
    /\ BuildIdle
    /\ HdrIdle
    /\ CssIdle

NextConcurrent ==
    \/ MainStepNoWrite
    \/ TagOpenWrite
    \/ TagCloseWrite
    \/ MainSummary
    \/ OpenArchive
    \/ AddRootFile
    \/ EnterDir
    \/ VisitFile
    \/ BuildFinish

SpecConcurrent == InitConcurrent /\ [][NextConcurrent]_vars

-----------------------------------------------------------------------------
(* css-variable-replacer.py *)

BACKUP_SUFFIX == ".backup"

DRY_RUN == FALSE

\* A pattern is a sequence of tokens: "\\b", "\\s*", "\\s+", or a text that
\* matches itself. The entries of lines 29, 31, 40, 45, 58 and 77, in the
\* order the source lists them; every other entry has the shape of one of these.
ReplacementList ==
    << [toks |-> <<"\\b", "padding:", "\\s*", "8px", "\\b">>,
        repl |-> "padding: var(--scd-padding-small)", desc |-> "padding 8px"],
       [toks |-> <<"\\b", "padding:", "\\s*", "12px", "\\b">>,
        repl |-> "padding: var(--scd-padding-compact)", desc |-> "padding 12px"],
       [toks |-> <<"\\b", "padding:", "\\s*", "8px", "\\s+", "12px", "\\b">>,
        repl |-> "padding: var(--scd-padding-small) var(--scd-padding-compact)",
        desc |-> "padding 8px 12px"],
       [toks |-> <<"\\b", "padding-top:", "\\s*", "8px", "\\b">>,
        repl |-> "padding-top: var(--scd-spacing-sm)", desc |-> "padding-top 8px"],
       [toks |-> <<"\\b", "margin:", "\\s*", "8px", "\\b">>,
        repl |-> "margin: var(--scd-spacing-sm)", desc |-> "margin 8px"],
       [toks |-> <<"\\b", "gap:", "\\s*", "8px", "\\b">>,
        repl |-> "gap: var(--scd-gap-tight)", desc |-> "gap 8px"] >>

\* REPLACEMENTS is a set literal: iterating it yields its entries in an order
\* that depends on the hash seed of the run
REPLACEMENTS ==
    {ReplacementList[i] : i \in 1..(IF MaxRules < Len(ReplacementList) THEN MaxRules
                                    ELSE Len(ReplacementList))}

\* NAMESPACE_FIXES is a dict: iterating it yields its entries as listed
NAMESPACE_FIXES ==
    << [toks |-> <<".form-field", "\\b">>, repl |-> ".scd-form-field"],
       [toks |-> <<".rules-table", "\\b">>, repl |-> ".scd-rules-table"],
       [toks |-> <<".input-wrapper", "\\b">>, repl |-> ".scd-input-wrapper"],
       [toks |-> <<".field-suffix", "\\b">>, repl |-> ".scd-field-suffix"] >>

Digits == "0123456789"

\* s[i] exists and is a word character (\w)
IsWord(s, i) ==
    /\ i >= 1
    /\ i <= Len(s)
    /\ \/ IsCased(Char(s, i))
       \/ Char(s, i) = "_"
       \/ \E d \in 1..Len(Digits) : Char(Digits, d) = Char(s, i)

\* \b between s[i - 1] and s[i]
WordBoundary(s, i) == IsWord(s, i - 1) # IsWord(s, i)

\* The text lit stands in s at position i
LiteralAt(s, i, lit) == i + Len(lit) - 1 <= Len(s) /\ SubSeq(s, i, i + Len(lit) - 1) = lit

\* re.match of the tokens from the t-th on at position i of s: the position
\* after the match, 0 when there is none. (A \s* or \s+ is always followed by
\* a text that starts with no whitespace, so the greedy run is the only try.)
RECURSIVE MatchEnd(_, _, _, _)
MatchEnd(toks, t, s, i) ==
    IF t > Len(toks) THEN i
    ELSE IF toks[t] = "\\b"
    THEN IF WordBoundary(s, i) THEN MatchEnd(toks, t + 1, s, i) ELSE 0
    ELSE IF toks[t] = "\\s*" THEN MatchEnd(toks, t + 1, s, SkipSpace(s, i))
    ELSE IF toks[t] = "\\s+"
    THEN IF i <= Len(s) /\ Char(s, i) \in Whitespace
         THEN MatchEnd(toks, t + 1, s, SkipSpace(s, i))
         ELSE 0
    ELSE IF LiteralAt(s, i, toks[t]) THEN MatchEnd(toks, t + 1, s, i + Len(toks[t]))
    ELSE 0

\* re.search(pattern, s, pos).start(): the least position from pos on where
\* the pattern matches, 0 when there is none
Search(toks, s, pos) ==
    LET hits == {i \in pos..Len(s) : MatchEnd(toks, 1, s, i) > 0}
    IN  IF hits = {} THEN 0 ELSE CHOOSE i \in hits : \A j \in hits : i <= j

\* re.sub(pattern, repl, s) from position pos on, k the start of the next match
RECURSIVE SubAt(_, _, _, _, _)
SubAt(toks, repl, s, pos, k) ==
    IF k = 0 THEN SubSeq(s, pos, Len(s))
    ELSE SubSeq(s, pos, k - 1) \o repl
             \o SubAt(toks, repl, s, MatchEnd(toks, 1, s, k),
                      Search(toks, s, MatchEnd(toks, 1, s, k)))

\* re.sub(pattern, replacement, content)
re_sub(toks, repl, content) == SubAt(toks, repl, content, 1, Search(toks, content, 1))

\* re.findall(pattern, content) is not empty
HasMatch(toks, content) == Search(toks, content, 1) > 0

\* The one CSS file process_file is called on, and its backup
CssFile == "resources/assets/css/admin.css"

BackupPath(filepath) == filepath \o BACKUP_SUFFIX

\* backup_file(filepath) on the tree t
backup_file(t, filepath) ==
    IF BackupPath(filepath) \notin DOMAIN t
    THEN [q \in DOMAIN t \cup {BackupPath(filepath)} |->
            IF q = BackupPath(filepath) THEN WriteText(ReadText(t[filepath])) ELSE t[q]]
    ELSE t

\* process_file returns: the call is recorded
CssReturn(result) ==
    /\ css_pc' = "idle"
    /\ css_runs' = css_runs + 1
    /\ css_last' = [path |-> CssFile, before |-> IF CssFile \in DOMAIN tree THEN tree[CssFile] ELSE "",
                    had_backup |-> BackupPath(CssFile) \in DOMAIN tree,
                    changes |-> css_changes_made, result |-> result]

\* process_file, lines 152-157: the file is read; a file that cannot be read
\* is reported and the call returns 0.
CssOpen ==
    /\ css_pc = "idle"
    /\ css_runs < MaxCalls
    /\ IF CssFile \notin DOMAIN tree \/ CssFile \in unreadable
       THEN /\ css_runs' = css_runs + 1
            /\ css_last' = [path |-> CssFile, before |-> IF CssFile \in DOMAIN tree THEN tree[CssFile] ELSE "",
                            had_backup |-> BackupPath(CssFile) \in DOMAIN tree,
                            changes |-> <<>>, result |-> 0]
            /\ UNCHANGED <<css_pc, css_content, css_original_content, css_todo, css_fix_i,
                           css_changes_made>>
       ELSE /\ css_content' = ReadText(tree[CssFile])
            /\ css_original_content' = ReadText(tree[CssFile])
            /\ css_changes_made' = <<>>
            /\ css_todo' = REPLACEMENTS
            /\ css_fix_i' = 1
            /\ css_pc' = IF REPLACEMENTS = {} THEN "fixes" ELSE "rules"
            /\ UNCHANGED <<css_runs, css_last>>
    /\ UNCHANGED <<tagVars, cmpVars, buildVars, hdrVars>>

\* process_file, lines 160-164: one iteration of the loop over REPLACEMENTS,
\* on whichever entry the set yields next.
CssRule ==
    /\ css_pc = "rules"
    /\ \E rule \in css_todo :
         /\ IF HasMatch(rule.toks, css_content)
            THEN /\ css_content' = re_sub(rule.toks, rule.repl, css_content)
                 /\ css_changes_made' = Append(css_changes_made, rule.desc)
            ELSE UNCHANGED <<css_content, css_changes_made>>
         /\ css_todo' = css_todo \ {rule}
         /\ css_pc' = IF css_todo = {rule} THEN "fixes" ELSE "rules"
    /\ UNCHANGED <<css_original_content, css_fix_i, css_runs, css_last>>
    /\ UNCHANGED <<tagVars, cmpVars, buildVars, hdrVars>>

\* process_file, lines 167-171: one iteration of the loop over NAMESPACE_FIXES.
CssFix ==
    /\ css_pc = "fixes"
    /\ css_fix_i <= Len(NAMESPACE_FIXES)
    /\ IF HasMatch(NAMESPACE_FIXES[css_fix_i].toks, css_content)
       THEN /\ css_content' = re_sub(NAMESPACE_FIXES[css_fix_i].toks,
                                     NAMESPACE_FIXES[css_fix_i].repl, css_content)
            /\ css_changes_made' = Append(css_changes_made, "namespace")
       ELSE UNCHANGED <<css_content, css_changes_made>>
    /\ css_fix_i' = css_fix_i + 1
    /\ UNCHANGED <<css_pc, css_original_content, css_todo, css_runs, css_last>>
    /\ UNCHANGED <<tagVars, cmpVars, buildVars, hdrVars>>

\* process_file, lines 173-186: a changed content is backed up and written,
\* and the number of changes is returned.
CssWrite ==
    /\ css_pc = "fixes"
    /\ css_fix_i > Len(NAMESPACE_FIXES)
    /\ IF css_content # css_original_content
       THEN /\ tree' = IF DRY_RUN THEN tree
                       ELSE [backup_file(tree, CssFile) EXCEPT ![CssFile] = WriteText(css_content)]
            /\ CssReturn(Len(css_changes_made))
       ELSE /\ UNCHANGED tree
            /\ CssReturn(0)
    /\ UNCHANGED <<css_content, css_original_content, css_todo, css_fix_i, css_changes_made>>
    /\ UNCHANGED <<unreadable, tag_i, annotated, skipped, errors, printed, tagpc, inserted,
                   orig, calls, last>>
    /\ UNCHANGED <<cmpVars, buildVars, hdrVars>>

\* Contents of a CSS file.
CssTexts ==
    { "a { padding: 8px 12px; }",
      "a { padding: 8px; margin: 8px }",
      "a { padding-top: 8px }\r\n.form-field { padding:12px }\r\n",
      "a { color: red; }",
      "a { color: red; }\r\n",
      ".rules-table { xpadding: 8px; padding: 8pxs }" }

\* What a backup left by an earlier session holds.
StaleBackup == "a { }"

\* process_file called again and again on one CSS file, with or without a
\* backup from an earlier session.
InitCss ==
    /\ \E text \in CssTexts :
         \/ tree = [q \in {CssFile} |-> text]
         \/ tree = [q \in {CssFile, BackupPath(CssFile)} |->
                      IF q = CssFile THEN text ELSE StaleBackup]
    /\ unreadable \in {{}, {CssFile}}
    /\ tag_i = 1 /\ annotated = 0 /\ skipped = 0 /\ errors = 0 /\ printed = <<>>
    /\ tagpc = "idle"
    /\ inserted = [q \in DOMAIN tree |-> 0]
    /\ orig = tree
    /\ calls = 0
    /\ last = NoCall
    /\ CmpIdle
    /\ BuildIdle
    /\ HdrIdle
    /\ CssIdle

NextCss == CssOpen \/ CssRule \/ CssFix \/ CssWrite

SpecCss == InitCss /\ [][NextCss]_vars

-----------------------------------------------------------------------------
(* Properties of the tagger *)

\* C3: tagging is idempotent. A second (and any later) call leaves the file
\* byte-identical to what the first call left, tagging the result of a
\* tagging changes nothing, and the tagger never writes more than one marker
\* line into a file.
TagIdempotent ==
    /\ inserted[TagFile] <= 1
    /\ (calls >= 2 => tree[TagFile] = last.before)
    /\ LET once == Annotate(tree[TagFile]).bytes IN Annotate(once).bytes = once

TagIdempotentWitness ==
    calls = 2 /\ inserted[TagFile] = 1 /\ ~last.result /\ tree[TagFile] # orig[TagFile]

\* Where a text has its first "/**" block: the 1-based number of the line that
\* holds the first "/**", and of the line that holds the first "*/" after that
\* opener (0 when there is none).
FirstOpenLine(lines) ==
    IF \E k \in 1..Len(lines) : Contains(lines[k], "/**")
    THEN CHOOSE k \in 1..Len(lines) :
            /\ Contains(lines[k], "/**")
            /\ \A j \in 1..(k - 1) : ~Contains(lines[j], "/**")
    ELSE 0

ClosesAt(lines, k, c) ==
    IF c = k THEN Find(lines[k], "*/", Find(lines[k], "/**", 1) + 3) # 0
    ELSE Contains(lines[c], "*/")

FirstCloseLine(lines) ==
    LET k == FirstOpenLine(lines) IN
    IF k # 0 /\ \E c \in k..Len(lines) : ClosesAt(lines, k, c)
    THEN CHOOSE c \in k..Len(lines) :
            /\ ClosesAt(lines, k, c)
            /\ \A j \in k..(c - 1) : ~ClosesAt(lines, k, j)
    ELSE 0

\* C4: when the marker is absent and the file has a leading comment block, the
\* first call returns True and the file is the original with the marker line
\* inserted immediately before the line that closes the FIRST "/**" block, also
\* when that block opens and closes on one line.  (Lines are compared after
\* newline translation.)
MarkerBeforeFirstBlockClose ==
    LET before == Split(ReadText(orig[TagFile]), "\n")
        c == FirstCloseLine(before)
    IN  (calls = 1 /\ ~Contains(orig[TagFile], Marker) /\ c # 0)
        => /\ last.result
           /\ Split(ReadText(tree[TagFile]), "\n") = ListInsert(before, c - 1, MarkerLine)

\* C5: scenario 3. After one call on "<header>\n/**\n * Desc\n */\n code" the
\* marker line stands immediately before the line " */" and the other lines
\* are unchanged and in order; the first call returns True, a second call
\* returns False and changes nothing.
Scenario3Tagged ==
    (orig[TagFile] = Scenario3 /\ calls >= 1)
    => /\ tree[TagFile] = "<header>\n/**\n * Desc\n * @freemius_premium_only\n */\n code"
       /\ (calls = 1 => last.result)
       /\ (calls >= 2 => ~last.result)

Scenario3Witness ==
    orig[TagFile] = Scenario3 /\ calls = 2 /\ inserted[TagFile] = 1

\* No "/**" ... "*/" block in the text.
NoCommentBlock(text) ==
    LET k == Find(text, "/**", 1) IN k = 0 \/ Find(text, "*/", k + 3) = 0

AlreadyAnnotatedHasMarker ==
    /\ \A k \in 1..Len(printed) :
         printed[k].label = "Already annotated" => Contains(tree[printed[k].path], Marker)
    /\ skipped = Cardinality({i \in 1..(tag_i - 1) :
                    /\ PREMIUM_ONLY_FILES[i] \in DOMAIN orig
                    /\ Contains(orig[PREMIUM_ONLY_FILES[i]], Marker)})

-----------------------------------------------------------------------------
(* Properties of the comparator *)

BucketNames == {"analytics", "api", "discounts", "recurring", "export_import", "other"}

\* C8: the categories partition the difference set. Once the lists are built,
\* every path of the PREMIUM archive that is absent from the FREE archive is
\* in exactly one of the six buckets.
BucketsPartition ==
    (cpc \in {"config", "done", "crashed"} /\ get_file_list(premium_zip) # {})
    => \A f \in get_file_list(premium_zip) \ get_file_list(free_zip) :
          Cardinality({b \in BucketNames : f \in buckets[b]}) = 1

\* C9: whenever the FREE archive holds a path the PREMIUM one lacks, the
\* comparator shows the warning for those paths and the run does not die;
\* also when the PREMIUM archive is empty or missing.
SubsetViolationSurfaced ==
    LET only_in_free == get_file_list(free_zip) \ get_file_list(premium_zip) IN
    (cpc \in {"config", "done", "crashed"} /\ only_in_free # {})
    => /\ free_warning.shown
       /\ free_warning.count = Cardinality(only_in_free)
       /\ cpc # "crashed"

-----------------------------------------------------------------------------
(* Properties of the assembly *)

\* C1: when create_zip has returned, the archive holds exactly the files of
\* the tree that are allow-listed root files or lie under an allow-listed
\* directory with a name no deny pattern matches; nothing else is in it.
InclusionDecision ==
    bpc = "done"
    => Range(zip_entries) = {PLUGIN_SLUG \o "/" \o p : p \in {q \in DOMAIN tree : ShouldShip(cfg, q)}}

InclusionDecisionWitness ==
    /\ bpc = "done"
    /\ cfg = Shipped
    /\ DOMAIN tree = {"includes/class-loader.php", "includes/core/notes.md", "includes-old/x.php"}
    /\ Range(zip_entries) = {"smart-cycle-discounts/includes/class-loader.php"}

\* C2: a force-included (root) file that exists is in the archive whatever
\* deny patterns match it, and scenario 2 accepts exactly a.php, b.md and
\* sub/c.php.
ForceIncludeWins ==
    bpc = "done"
    => /\ \A k \in 1..Len(cfg.root_files) :
            cfg.root_files[k] \in DOMAIN tree
            => (PLUGIN_SLUG \o "/" \o cfg.root_files[k]) \in Range(zip_entries)
       /\ (cfg = Scenario2 /\ DOMAIN tree = ScenarioFiles)
          => Range(zip_entries) = { "smart-cycle-discounts/a.php", "smart-cycle-discounts/b.md",
                                    "smart-cycle-discounts/sub/c.php" }

ForceIncludeWinsWitness ==
    /\ bpc = "done"
    /\ cfg = Scenario2
    /\ DOMAIN tree = ScenarioFiles
    /\ "smart-cycle-discounts/b.md" \in Range(zip_entries)
    /\ skipped_files = 2

\* C11: a directory rule covers a path only when the path is the directory
\* followed by a separator: with the shipped rules the css file is shipped,
\* the scss file, includes-old/ and the top-level assets/ are not, and
\* get_excluded_directories lists assets/ and includes-old/ as excluded but
\* neither includes/ nor resources/.
Slug(q) == PLUGIN_SLUG \o "/" \o q

NoSiblingLeak ==
    /\ bpc = "done"
       => /\ \A k \in 1..Len(zip_entries) :
               \E q \in DOMAIN tree :
                   /\ zip_entries[k] = Slug(q)
                   /\ \/ q \in Range(cfg.root_files)
                      \/ \E j \in 1..Len(cfg.dirs) : UnderDir(q, cfg.dirs[j])
          /\ cfg = Shipped
             => /\ "resources/assets/css/admin.css" \in DOMAIN tree
                   => Slug("resources/assets/css/admin.css") \in Range(zip_entries)
                /\ Slug("resources/assets/scss/admin.scss") \notin Range(zip_entries)
                /\ Slug("includes-old/x.php") \notin Range(zip_entries)
                /\ Slug("assets/index.php") \notin Range(zip_entries)
    /\ (excluded_dirs.listed /\ cfg = Shipped)
       => /\ "assets" \in TopDirs(tree) <=> "assets/" \in excluded_dirs.dirs
          /\ "includes-old" \in TopDirs(tree) <=> "includes-old/" \in excluded_dirs.dirs
          /\ "includes/" \notin excluded_dirs.dirs
          /\ "resources/" \notin excluded_dirs.dirs

NoSiblingLeakWitness ==
    /\ bpc = "done"
    /\ cfg = Shipped
    /\ DOMAIN tree = {"resources/assets/css/admin.css", "resources/assets/scss/admin.scss",
                      "assets/index.php"}
    /\ excluded_dirs.listed
    /\ excluded_dirs.dirs = {"assets/"}
    /\ Range(zip_entries) = {Slug("resources/assets/css/admin.css")}

\* The top-level directories the rules reach: an allow-listed directory is
\* the directory itself or lies beneath it.
Reached(dirs, q) ==
    LET top == Split(q, "/")[1] IN
    \E j \in 1..Len(dirs) : dirs[j] = "." \/ dirs[j] = top \/ StartsWith(dirs[j], top \o "/")

\* C13: create_zip never tests, lists or decides a path beneath a top-level
\* directory that no allow-listed directory equals or lies beneath.
PrunedNeverVisited ==
    /\ \A k \in 1..Len(visits) :
           LET q == normpath(visits[k].path) IN
           Contains(q, "/") => Reached(cfg.dirs, q)
    /\ \A w \in pending :
           LET q == normpath(path_join(w.root, w.filename)) IN
           Contains(q, "/") => Reached(cfg.dirs, q)
    /\ included_files + skipped_files
         <= Cardinality({k \in 1..Len(cfg.root_files) : cfg.root_files[k] \in DOMAIN tree})
            + Cardinality({q \in DOMAIN tree : Reached(cfg.dirs, q)})

PrunedNeverVisitedWitness ==
    /\ bpc = "done"
    /\ cfg = Shipped
    /\ DOMAIN tree = {"tests/deep/er/test-x.php", "includes-old/x.php", "includes/class-loader.php"}
    /\ \E k \in 1..Len(visits) :
           visits[k] = [op |-> "decide", path |-> "./includes/class-loader.php"]

\* The (directory entry, file) pairs of the walk: a file counts once for each
\* allow-listed directory it lies under.
WalkPairs == {x \in (1..Len(cfg.dirs)) \X DOMAIN tree : UnderDir(x[2], cfg.dirs[x[1]])}

\* C14: on return included_files + skipped_files is the number of existing
\* root files plus the number of files under the allow-listed directories,
\* skipped_files is the number of those whose name a deny pattern matches,
\* and each of them was decided exactly once.
WalkCounters ==
    bpc = "done"
    => /\ included_files + skipped_files
            = Cardinality({k \in 1..Len(cfg.root_files) : cfg.root_files[k] \in DOMAIN tree})
              + Cardinality(WalkPairs)
       /\ skipped_files = Cardinality({x \in WalkPairs : DenyName(cfg.deny, x[2])})
       /\ \A q \in DOMAIN tree :
            Cardinality({k \in 1..Len(visits) :
                            visits[k].op = "decide" /\ normpath(visits[k].path) = q})
              = Cardinality({x \in WalkPairs : x[2] = q})

WalkCountersWitness ==
    /\ bpc = "done"
    /\ cfg = Shipped
    /\ DOMAIN tree = {"LICENSE", "includes/class-loader.php", "includes/core/notes.md"}
    /\ included_files = 2
    /\ skipped_files = 1

\* C15: every allow-listed directory that is missing has been reported by the
\* time create_zip returns.
MissingDirReported ==
    bpc = "done"
    => \A k \in 1..Len(cfg.dirs) :
           ~isdir(tree, path_join(SourceDir, cfg.dirs[k])) => cfg.dirs[k] \in build_warnings

\* C16: a file exists under the output name only once the assembly has
\* completed.
ArtifactOnlyWhenComplete == artifact # "absent" => bpc = "done"

\* C18: scenario 1 accepts exactly a.php and sub/c.php; a wildcard deny
\* pattern is matched against the base name at any depth.
Scenario1Accepted ==
    (bpc = "done" /\ cfg = Scenario1)
    => /\ DOMAIN tree = ScenarioFiles
          => Range(zip_entries) = {Slug("a.php"), Slug("sub/c.php")}
       /\ \A q \in DOMAIN tree :
            Slug(q) \in Range(zip_entries)
              <=> ~(EndsWith(q, ".md") \/ EndsWith(q, ".log"))

Scenario1AcceptedWitness ==
    /\ bpc = "done"
    /\ cfg = Scenario1
    /\ DOMAIN tree = ScenarioFiles
    /\ skipped_files = 2
    /\ included_files = 2

\* C22: under the shipped lists no archive path is written twice: the
\* entries written so far are pairwise different, and included_files is the
\* number of distinct paths among them.
NoPathTwice ==
    cfg = Shipped
    => /\ \A i, j \in DOMAIN zip_entries : zip_entries[i] = zip_entries[j] => i = j
       /\ included_files = Cardinality(Range(zip_entries))

NoPathTwiceWitness ==
    /\ bpc = "done"
    /\ cfg = Shipped
    /\ included_files = 3
    /\ Slug("LICENSE") \in Range(zip_entries)
    /\ Slug("vendor/freemius/start.php") \in Range(zip_entries)
    /\ Slug("includes/class-loader.php") \in Range(zip_entries)

-----------------------------------------------------------------------------
(* Properties of the two tiers *)

\* C10: once the tagger's batch is over and both assemblies of the tree are
\* made, every path of the restricted manifest (the included files without
\* the tag marker) is a path of the archive create_zip produced.
SubsetInvariant ==
    (bpc = "done" /\ free_zip.exists)
    => get_file_list(free_zip) \subseteq Range(zip_entries)

SubsetInvariantWitness ==
    /\ bpc = "done"
    /\ free_zip.exists
    /\ tagpc = "done"
    /\ annotated >= 1
    /\ get_file_list(free_zip) # {}
    /\ get_file_list(free_zip) # Range(zip_entries)

-----------------------------------------------------------------------------
(* Properties of the header updater *)

\* C12: the header updater leaves a file out by directory name only when the
\* name is a whole component of its path: a file passed over silently has
\* a vendor or node_modules component, a file skipped as third-party a
\* freemius or wordpress-sdk component.
WholeComponentOnly ==
    \A e \in hdr_log :
        /\ e.what = "passed" => Range(Parts(e.path)) \cap {"vendor", "node_modules"} # {}
        /\ e.what = "third-party" => Range(Parts(e.path)) \cap {"freemius", "wordpress-sdk"} # {}

\* C20: a JavaScript or CSS file is skipped as minified only if its name ends
\* with .min.js / .min.css.
MinifiedOnlyBySuffix ==
    \A e \in hdr_log :
        e.what = "minified" => EndsWith(e.path, ".min.js") \/ EndsWith(e.path, ".min.css")

\* C19: once the tagger has written the marker into the file, the file holds
\* it after every later call of the header updater or the tagger.
MarkerPersists == inserted[TagFile] >= 1 => Contains(tree[TagFile], Marker)

\* The number of places where sub occurs in s
Count(s, sub) == Cardinality({i \in 1..Len(s) : StartsWith(SubSeq(s, i, Len(s)), sub)})

\* What follows the header of a PHP text: the whole text when it does not
\* start with the opening tag, else the text after its first docblock, or
\* after the opening tag when it has no docblock; without its leading
\* whitespace
CodeOf(text) ==
    IF ~StartsWith(text, "<?php") THEN LStrip(text)
    ELSE IF Contains(text, "*/") THEN LStrip(SubSeq(text, Find(text, "*/", 1) + 2, Len(text)))
    ELSE LStrip(SubSeq(text, 6, Len(text)))

\* C21: after any number of update_php_file calls on a file the tagger has not
\* touched, a main plugin file is as it was; any other file ends with the
\* code that followed its header, holds exactly one "<?php" and is what one
\* call made of it.
HeaderOnlyReplaced ==
    (calls = 0 /\ hdr_calls >= 1) =>
        IF Contains(orig[TagFile], "Plugin Name:") THEN tree[TagFile] = orig[TagFile]
        ELSE /\ EndsWith(tree[TagFile], "\n" \o CodeOf(orig[TagFile]))
             /\ Count(tree[TagFile], "<?php") = 1
             /\ tree[TagFile] = update_php_file(orig, {}, TagFile).bytes

-----------------------------------------------------------------------------
(* Properties of the CSS replacer *)

\* C23: the backup, once it exists, holds what the file held before the
\* replacer first changed it (what it held before the runs, when an earlier
\* session left it), and a call that finds nothing to change leaves the file
\* as it was and creates no backup.
BackupKeepsOriginal ==
    /\ BackupPath(CssFile) \in DOMAIN tree
       => tree[BackupPath(CssFile)] = IF BackupPath(CssFile) \in DOMAIN orig
                                      THEN orig[BackupPath(CssFile)]
                                      ELSE orig[CssFile]
    /\ (css_pc = "idle" /\ css_runs >= 1 /\ css_content = css_original_content)
       => /\ tree[CssFile] = css_last.before
          /\ BackupPath(CssFile) \in DOMAIN tree <=> css_last.had_backup

\* The orders a loop over REPLACEMENTS can take
Orders ==
    {o \in [1..Cardinality(REPLACEMENTS) -> REPLACEMENTS] :
        \A i, j \in 1..Cardinality(REPLACEMENTS) : o[i] = o[j] => i = j}

\* The content after the rules of a list, from the k-th on, were applied in turn
RECURSIVE ApplyRules(_, _, _)
ApplyRules(rules, k, content) ==
    IF k > Len(rules) THEN content
    ELSE ApplyRules(rules, k + 1, re_sub(rules[k].toks, rules[k].repl, content))

\* The content process_file arrives at when REPLACEMENTS is iterated in order o
RewrittenIn(o, content) == ApplyRules(NAMESPACE_FIXES, 1, ApplyRules(o, 1, content))

\* C24: what the first process_file call leaves in the file is what every
\* iteration order of REPLACEMENTS arrives at, and a "padding: 8px 12px" of
\* the file has become the two-variable declaration.
DeterministicRewrite ==
    (css_pc = "idle" /\ css_runs = 1 /\ CssFile \notin unreadable)
    => /\ \A o \in Orders :
            RewrittenIn(o, ReadText(orig[CssFile])) # ReadText(orig[CssFile])
            => tree[CssFile] = WriteText(RewrittenIn(o, ReadText(orig[CssFile])))
       /\ Contains(orig[CssFile], "padding: 8px 12px")
          => Contains(tree[CssFile],
                      "padding: var(--scd-padding-small) var(--scd-padding-compact)")

-----------------------------------------------------------------------------
(* Properties of the tools run together *)

\* C17: whatever the archive holds of a file is the file as it was before
\* the tagging run or as the tagger leaves it, never anything in between.
PackagedWhole ==
    \A n \in DOMAIN zip_data :
        \E q \in DOMAIN orig :
            /\ n = Slug(q)
            /\ zip_data[n] \in {orig[q], Annotate(orig[q]).bytes}

====
